---- MODULE Spec2Model ----
(***************************************************************************)
(* The client-side fetch / selection / pagination state machine of the     *)
(* pollution dashboard: AppContent (src/src/App.jsx), the table view       *)
(* MySensorsPage (src/src/components/MySensors.jsx) and the plots view     *)
(* PollutionPlotsDashboard (src/unnamed/part_000).                         *)
(*                                                                         *)
(* One action is one run-to-completion step of the browser's event loop:   *)
(* a user event handler together with the render and the effects it        *)
(* causes, the continuation of an async loader after its awaits, or the    *)
(* callback of a timer.                                                    *)
(***************************************************************************)
EXTENDS Integers, Sequences, FiniteSets, TLC

(* ------------------------------ bounds -------------------------------- *)

\* requests issued in one run (every mount issues one /sensors request)
MaxRequests == 3
\* the sizes of the reading collections the server answers with: 0, ShortLen, LongLen
ShortLen == 1
LongLen == 11
\* the time that passes in one Tick, in ms
TickMs == 2000
MaxPagingReadings == 80
MaxRenderLen == 2

(* ------------------------- program constants -------------------------- *)

readingsPerPage == 10
LogoutDelay == 2000
NoSensor == -1
NoToken == 0

SessionExpiredMsg == "Session expired. Please log in again."
ServerErrorMsg == "Server error. Please try again later."
ForbiddenMsg == "You do not have permission to access this resource"
ConflictMsg == "Resource already exists"
UnknownErrorMsg == "Unknown error"

TimeRanges == {"24h", "7d", "30d"}
Pages == {"plots", "sensors"}

(* ------------------------------ values -------------------------------- *)

\* the error state: null, a plain text, or `Error: ${status} - ${text}`
NullError == [kind |-> "null", status |-> 0, text |-> ""]
TextError(s) == [kind |-> "text", status |-> 0, text |-> s]
FormattedError(st, s) == [kind |-> "fmt", status |-> st, text |-> s]

\* JavaScript truthiness of a sensor id (null and 0 are falsy)
TruthyId(id) == id # NoSensor /\ id # 0

\* JavaScript truthiness of the error state (null and "" are falsy)
TruthyError(e) == e.kind = "fmt" \/ (e.kind = "text" /\ e.text # "")

\* data.error_msg || fallback with the server's message ignored
OrElseFallbackOnly(resp, fallback) == fallback

\* data.error_msg || fallback
OrElse(resp, fallback) == IF resp.hasMsg /\ resp.msg # "" THEN resp.msg ELSE fallback

SensorIds == {0, 1, 2}

RECURSIVE Distinct(_)
Distinct(s) ==
  IF Len(s) <= 1 THEN TRUE
  ELSE (\A i \in 2..Len(s) : s[i] # s[1]) /\ Distinct(Tail(s))

\* the sensor collections the server may answer with: none, one or two
\* sensors, their ids unique; a collection of two lists sensor 1 first
SensorLists ==
  LET idSeqs == UNION {[1..n -> SensorIds] : n \in {0, 1, 2}}
  IN  {[i \in 1..Len(s) |-> [id |-> s[i]]] :
         s \in {t \in idSeqs : Distinct(t) /\ (Len(t) = 2 => t[1] = 1)}}

\* the reading collection the server answers request number k with
ReadingsBody(s, r, k, n) == [i \in 1..n |-> [id |-> i, sensor |-> s, range |-> r, req |-> k]]

ReadingCounts == {0, ShortLen, LongLen}
ErrorStatuses == {401, 403, 404, 409, 500}
ErrorMsgs == {"boom"}
FailureMsgs == {"Failed to fetch"}

HttpResponse(st, has, m, b) ==
  [ok |-> TRUE, status |-> st, hasMsg |-> has, msg |-> m, body |-> b]
FailedResponse(m) ==
  [ok |-> FALSE, status |-> 0, hasMsg |-> FALSE, msg |-> m, body |-> <<>>]

ErrorResponses ==
  {HttpResponse(st, FALSE, "", <<>>) : st \in ErrorStatuses}
    \cup {HttpResponse(st, TRUE, m, <<>>) : st \in ErrorStatuses, m \in ErrorMsgs}
    \cup {FailedResponse(m) : m \in FailureMsgs}

SensorsResponses ==
  {HttpResponse(200, FALSE, "", S) : S \in SensorLists} \cup ErrorResponses

ReadingsResponses(r) ==
  {HttpResponse(200, FALSE, "", ReadingsBody(r.sensor, r.range, r.seq, n)) : n \in ReadingCounts}
    \cup ErrorResponses

(* ------------------------------- state -------------------------------- *)

VARIABLES
  token,            \* AuthContext: the bearer token, NoToken when absent
  isAuthenticated,  \* AuthContext
  activePage,       \* AppContent: 'plots' or 'sensors'
  comp,             \* the component AppContent renders, with its state
  requests,         \* the fetches in flight
  timers,           \* the pending setTimeout(() => logout(), 2000) callbacks
  issued,           \* the number of requests issued so far
  mounts,           \* the number of component instances mounted so far
  sessions,         \* the number of logins so far
  latest,           \* the latest-issued readings request of the mounted instance
  last              \* the response the last step handled, if it handled one

vars == <<token, isAuthenticated, activePage, comp, requests, timers,
          issued, mounts, sessions, latest, last>>

\* useState initial values of a view; the login page holds none of this state
InitialView(page, inst) ==
  [page |-> page, inst |-> inst,
   sensors |-> <<>>, selectedSensor |-> NoSensor, readings |-> <<>>,
   sensorsLoading |-> TRUE, readingsLoading |-> FALSE, error |-> NullError,
   currentPage |-> 1, timeRange |-> "24h", showCO2 |-> TRUE, showTemp |-> TRUE]

LoginView == [InitialView("login", 0) EXCEPT !.sensorsLoading = FALSE]

NoLatest == [req |-> 0, sensor |-> NoSensor, range |-> "", arrived |-> FALSE, status |-> 0, n |-> 0]
NoEvent ==
  [op |-> "none", seq |-> 0, applied |-> FALSE, ok |-> FALSE, status |-> 0,
   hasMsg |-> FALSE, msg |-> "", body |-> <<>>, page |-> 0]

\* the record of a step in which the loader of request r resumed with resp
Settling(r, resp, applied) ==
  [op |-> r.kind, seq |-> r.seq, applied |-> applied, ok |-> resp.ok,
   status |-> resp.status,
   hasMsg |-> applied /\ resp.hasMsg,
   msg |-> IF applied THEN resp.msg ELSE "",
   body |-> IF applied THEN resp.body ELSE <<>>,
   page |-> 0]

(* --------------------------- the loaders ------------------------------ *)

\* What the continuation of a loader does once its fetch has settled: the
\* state it sets (view) and whether it calls setTimeout(() => logout(), 2000).
Settled(v, t) == [view |-> v, setTimeout |-> t]

\* fetchSensors with the auto-selection taking the last sensor, not the first
fetchSensorsSelectsLast(v, resp) ==
  LET done(w) == [w EXCEPT !.sensorsLoading = FALSE]
  IN  IF ~resp.ok
        THEN Settled(done([v EXCEPT !.error = TextError(resp.msg)]), FALSE)
      ELSE IF resp.status = 200
        THEN Settled(done([v EXCEPT !.sensors = resp.body,
                                    !.selectedSensor =
                                       IF Len(resp.body) > 0
                                         THEN resp.body[Len(resp.body)].id ELSE @]),
                     FALSE)
      ELSE IF resp.status = 401
        THEN Settled(done([v EXCEPT !.error = TextError(SessionExpiredMsg)]), TRUE)
      ELSE IF resp.status = 500
        THEN Settled(done([v EXCEPT !.error = TextError(OrElse(resp, ServerErrorMsg))]), FALSE)
      ELSE Settled(done([v EXCEPT !.error =
                            FormattedError(resp.status, OrElse(resp, UnknownErrorMsg))]),
                   FALSE)

\* fetchSensors with setSensorsLoading(false) at the end of its try block, not
\* in a finally: a transport failure skips it
fetchSensorsNoFinally(v, resp) ==
  LET done(w) == [w EXCEPT !.sensorsLoading = FALSE]
  IN  IF ~resp.ok
        THEN Settled([v EXCEPT !.error = TextError(resp.msg)], FALSE)
      ELSE IF resp.status = 200
        THEN Settled(done([v EXCEPT !.sensors = resp.body,
                                    !.selectedSensor =
                                       IF Len(resp.body) > 0 THEN resp.body[1].id ELSE @]),
                     FALSE)
      ELSE IF resp.status = 401
        THEN Settled(done([v EXCEPT !.error = TextError(SessionExpiredMsg)]), TRUE)
      ELSE IF resp.status = 500
        THEN Settled(done([v EXCEPT !.error = TextError(OrElse(resp, ServerErrorMsg))]), FALSE)
      ELSE Settled(done([v EXCEPT !.error =
                            FormattedError(resp.status, OrElse(resp, UnknownErrorMsg))]),
                   FALSE)

\* MySensorsPage.fetchSensors after its awaits: the switch, catch and finally
fetchSensors(v, resp) ==
  LET done(w) == [w EXCEPT !.sensorsLoading = FALSE]
  IN  IF ~resp.ok
        THEN Settled(done([v EXCEPT !.error = TextError(resp.msg)]), FALSE)
      ELSE IF resp.status = 200
        THEN Settled(done([v EXCEPT !.sensors = resp.body,
                                    !.selectedSensor =
                                       IF Len(resp.body) > 0 THEN resp.body[1].id ELSE @]),
                     FALSE)
      ELSE IF resp.status = 401
        THEN Settled(done([v EXCEPT !.error = TextError(SessionExpiredMsg)]), TRUE)
      ELSE IF resp.status = 500
        THEN Settled(done([v EXCEPT !.error = TextError(OrElse(resp, ServerErrorMsg))]), FALSE)
      ELSE Settled(done([v EXCEPT !.error =
                            FormattedError(resp.status, OrElse(resp, UnknownErrorMsg))]),
                   FALSE)

\* fetchUserSensors without its setSensors(data.body)
fetchUserSensorsKeepsList(v, resp) ==
  LET done(w) == [w EXCEPT !.sensorsLoading = FALSE]
  IN  IF ~resp.ok
        THEN Settled(done(v), FALSE)
      ELSE IF resp.status = 200
        THEN Settled(done([v EXCEPT !.selectedSensor =
                                       IF Len(resp.body) > 0 THEN resp.body[1].id ELSE @]),
                     FALSE)
      ELSE IF resp.status = 401
        THEN Settled(done([v EXCEPT !.error = TextError(SessionExpiredMsg)]), TRUE)
      ELSE IF resp.status = 500
        THEN Settled(done([v EXCEPT !.error = TextError(OrElse(resp, ServerErrorMsg))]), FALSE)
      ELSE Settled(done([v EXCEPT !.error =
                            FormattedError(resp.status, OrElse(resp, UnknownErrorMsg))]),
                   FALSE)

\* PollutionPlotsDashboard.fetchUserSensors after its awaits; its catch only
\* logs to the console
fetchUserSensors(v, resp) ==
  LET done(w) == [w EXCEPT !.sensorsLoading = FALSE]
  IN  IF ~resp.ok
        THEN Settled(done(v), FALSE)
      ELSE IF resp.status = 200
        THEN Settled(done([v EXCEPT !.sensors = resp.body,
                                    !.selectedSensor =
                                       IF Len(resp.body) > 0 THEN resp.body[1].id ELSE @]),
                     FALSE)
      ELSE IF resp.status = 401
        THEN Settled(done([v EXCEPT !.error = TextError(SessionExpiredMsg)]), TRUE)
      ELSE IF resp.status = 500
        THEN Settled(done([v EXCEPT !.error = TextError(OrElse(resp, ServerErrorMsg))]), FALSE)
      ELSE Settled(done([v EXCEPT !.error =
                            FormattedError(resp.status, OrElse(resp, UnknownErrorMsg))]),
                   FALSE)

\* fetchReadings without its case 403: the status falls through to default
fetchReadingsNo403(v, resp) ==
  LET done(w) == [w EXCEPT !.readingsLoading = FALSE]
  IN  IF ~resp.ok
        THEN Settled(done([v EXCEPT !.error = TextError(resp.msg)]), FALSE)
      ELSE IF resp.status = 200
        THEN Settled(done([v EXCEPT !.readings = resp.body]), FALSE)
      ELSE IF resp.status = 401
        THEN Settled(done([v EXCEPT !.error = TextError(SessionExpiredMsg)]), TRUE)
      ELSE IF resp.status = 409
        THEN Settled(done([v EXCEPT !.error = TextError(OrElse(resp, ConflictMsg))]), FALSE)
      ELSE IF resp.status = 500
        THEN Settled(done([v EXCEPT !.error = TextError(OrElse(resp, ServerErrorMsg))]), FALSE)
      ELSE Settled(done([v EXCEPT !.error =
                            FormattedError(resp.status, OrElse(resp, UnknownErrorMsg))]),
                   FALSE)

\* fetchReadings with a catch that also empties the readings it holds
fetchReadingsCatchClears(v, resp) ==
  LET done(w) == [w EXCEPT !.readingsLoading = FALSE]
  IN  IF ~resp.ok
        THEN Settled(done([v EXCEPT !.error = TextError(resp.msg),
                                    !.readings = <<>>]), FALSE)
      ELSE IF resp.status = 200
        THEN Settled(done([v EXCEPT !.readings = resp.body]), FALSE)
      ELSE IF resp.status = 401
        THEN Settled(done([v EXCEPT !.error = TextError(SessionExpiredMsg)]), TRUE)
      ELSE IF resp.status = 403
        THEN Settled(done([v EXCEPT !.error = TextError(OrElse(resp, ForbiddenMsg))]), FALSE)
      ELSE IF resp.status = 409
        THEN Settled(done([v EXCEPT !.error = TextError(OrElse(resp, ConflictMsg))]), FALSE)
      ELSE IF resp.status = 500
        THEN Settled(done([v EXCEPT !.error = TextError(OrElse(resp, ServerErrorMsg))]), FALSE)
      ELSE Settled(done([v EXCEPT !.error =
                            FormattedError(resp.status, OrElse(resp, UnknownErrorMsg))]),
                   FALSE)

\* MySensorsPage.fetchReadings after its awaits
fetchReadings(v, resp) ==
  LET done(w) == [w EXCEPT !.readingsLoading = FALSE]
  IN  IF ~resp.ok
        THEN Settled(done([v EXCEPT !.error = TextError(resp.msg)]), FALSE)
      ELSE IF resp.status = 200
        THEN Settled(done([v EXCEPT !.readings = resp.body]), FALSE)
      ELSE IF resp.status = 401
        THEN Settled(done([v EXCEPT !.error = TextError(SessionExpiredMsg)]), TRUE)
      ELSE IF resp.status = 403
        THEN Settled(done([v EXCEPT !.error = TextError(OrElse(resp, ForbiddenMsg))]), FALSE)
      ELSE IF resp.status = 409
        THEN Settled(done([v EXCEPT !.error = TextError(OrElse(resp, ConflictMsg))]), FALSE)
      ELSE IF resp.status = 500
        THEN Settled(done([v EXCEPT !.error = TextError(OrElse(resp, ServerErrorMsg))]), FALSE)
      ELSE Settled(done([v EXCEPT !.error =
                            FormattedError(resp.status, OrElse(resp, UnknownErrorMsg))]),
                   FALSE)

\* fetchSensorReadings adding the response to the readings it holds
fetchSensorReadingsAppends(v, resp) ==
  LET done(w) == [w EXCEPT !.readingsLoading = FALSE]
  IN  IF ~resp.ok
        THEN Settled(done([v EXCEPT !.error = TextError(resp.msg)]), FALSE)
      ELSE IF resp.status = 200
        THEN Settled(done([v EXCEPT !.readings = @ \o resp.body]), FALSE)
      ELSE IF resp.status = 401
        THEN Settled(done([v EXCEPT !.error = TextError(SessionExpiredMsg)]), TRUE)
      ELSE IF resp.status = 403
        THEN Settled(done([v EXCEPT !.error = TextError(OrElse(resp, ForbiddenMsg))]), FALSE)
      ELSE IF resp.status = 409
        THEN Settled(done([v EXCEPT !.error = TextError(OrElse(resp, ConflictMsg))]), FALSE)
      ELSE IF resp.status = 500
        THEN Settled(done([v EXCEPT !.error = TextError(OrElse(resp, ServerErrorMsg))]), FALSE)
      ELSE Settled(done([v EXCEPT !.error =
                            FormattedError(resp.status, OrElse(resp, UnknownErrorMsg))]),
                   FALSE)

\* fetchSensorReadings with setLoading(false) after its switch, not in a
\* finally: a transport failure skips it
fetchSensorReadingsNoFinally(v, resp) ==
  LET done(w) == [w EXCEPT !.readingsLoading = FALSE]
  IN  IF ~resp.ok
        THEN Settled([v EXCEPT !.error = TextError(resp.msg)], FALSE)
      ELSE IF resp.status = 200
        THEN Settled(done([v EXCEPT !.readings = resp.body]), FALSE)
      ELSE IF resp.status = 401
        THEN Settled(done([v EXCEPT !.error = TextError(SessionExpiredMsg)]), TRUE)
      ELSE IF resp.status = 403
        THEN Settled(done([v EXCEPT !.error = TextError(OrElse(resp, ForbiddenMsg))]), FALSE)
      ELSE IF resp.status = 409
        THEN Settled(done([v EXCEPT !.error = TextError(OrElse(resp, ConflictMsg))]), FALSE)
      ELSE IF resp.status = 500
        THEN Settled(done([v EXCEPT !.error = TextError(OrElse(resp, ServerErrorMsg))]), FALSE)
      ELSE Settled(done([v EXCEPT !.error =
                            FormattedError(resp.status, OrElse(resp, UnknownErrorMsg))]),
                   FALSE)

\* PollutionPlotsDashboard.fetchSensorReadings after its awaits
fetchSensorReadings(v, resp) ==
  LET done(w) == [w EXCEPT !.readingsLoading = FALSE]
  IN  IF ~resp.ok
        THEN Settled(done([v EXCEPT !.error = TextError(resp.msg)]), FALSE)
      ELSE IF resp.status = 200
        THEN Settled(done([v EXCEPT !.readings = resp.body]), FALSE)
      ELSE IF resp.status = 401
        THEN Settled(done([v EXCEPT !.error = TextError(SessionExpiredMsg)]), TRUE)
      ELSE IF resp.status = 403
        THEN Settled(done([v EXCEPT !.error = TextError(OrElse(resp, ForbiddenMsg))]), FALSE)
      ELSE IF resp.status = 409
        THEN Settled(done([v EXCEPT !.error = TextError(OrElse(resp, ConflictMsg))]), FALSE)
      ELSE IF resp.status = 500
        THEN Settled(done([v EXCEPT !.error = TextError(OrElse(resp, ServerErrorMsg))]), FALSE)
      ELSE Settled(done([v EXCEPT !.error =
                            FormattedError(resp.status, OrElse(resp, UnknownErrorMsg))]),
                   FALSE)

\* a readings loader that starts without its setError(null)
fetchReadingsStartKeepsError(v) == [v EXCEPT !.readingsLoading = TRUE]

\* a readings loader up to its first await: setLoading(true); setError(null)
fetchReadingsStart(v) == [v EXCEPT !.readingsLoading = TRUE, !.error = NullError]

\* the range the readings URL carries: the table view's is fixed
RangeOf(v) == IF v.page = "plots" THEN v.timeRange ELSE "30d"

\* the table view's readings effect without its if (selectedSensor)
SensorEffectUnguarded(v) ==
  [view |-> [fetchReadingsStart(v) EXCEPT !.currentPage = 1], fetch |-> TRUE]

\* useEffect(..., [selectedSensor]) of the table view, run after the first
\* render and after a render in which selectedSensor changed
SensorEffect(v) ==
  IF TruthyId(v.selectedSensor)
    THEN [view |-> [fetchReadingsStart(v) EXCEPT !.currentPage = 1], fetch |-> TRUE]
    ELSE [view |-> v, fetch |-> FALSE]

\* useEffect(..., [selectedSensor, timeRange]) of the plots view
SensorOrRangeEffect(v) ==
  IF TruthyId(v.selectedSensor)
    THEN [view |-> fetchReadingsStart(v), fetch |-> TRUE]
    ELSE [view |-> v, fetch |-> FALSE]

ReadingsEffect(v) == IF v.page = "sensors" THEN SensorEffect(v) ELSE SensorOrRangeEffect(v)

\* the readings effect with the error among its dependencies
ReadingsDepsWithError(v) ==
  IF v.page = "sensors" THEN <<v.selectedSensor, v.error>>
                        ELSE <<v.selectedSensor, v.timeRange, v.error>>

\* the readings effect with what the display controls set among its
\* dependencies
ReadingsDepsWithDisplay(v) ==
  IF v.page = "sensors" THEN <<v.selectedSensor, v.currentPage>>
                        ELSE <<v.selectedSensor, v.timeRange, v.showCO2, v.showTemp>>

\* the dependency array of the readings effect: [selectedSensor] in the table
\* view, [selectedSensor, timeRange] in the plots view
ReadingsDeps(v) ==
  IF v.page = "sensors" THEN <<v.selectedSensor>>
                        ELSE <<v.selectedSensor, v.timeRange>>

\* the render that follows a loader's state updates, from view state old to
\* new: React runs the readings effect if one of its dependencies changed
AfterRender(old, new) ==
  IF ReadingsDeps(new) # ReadingsDeps(old)
    THEN ReadingsEffect(new) ELSE [view |-> new, fetch |-> FALSE]

(* ---------------------------- rendering ------------------------------- *)

\* AppContent without its !isAuthenticated guard
AppContentUnguarded(auth, page) == page

\* AppContent: the login/register page unless authenticated, else the active page
AppContent(auth, page) == IF ~auth THEN "login" ELSE page

\* what a view returns from its render guards
Display(v) ==
  IF v.page = "login" THEN "login"
  ELSE IF v.sensorsLoading THEN "sensorsLoading"
  ELSE IF Len(v.sensors) = 0 THEN "noSensors"
  ELSE "main"

SensorIdsOf(v) == {v.sensors[i].id : i \in 1..Len(v.sensors)}

\* sensors.find(s => s.id === selectedSensor) is not undefined
HasCurrentSensor(v) == v.selectedSensor \in SensorIdsOf(v)

\* the panel that shows readings, the error and the loader is rendered
PanelRendered(v) ==
  Display(v) = "main" /\ (v.page = "sensors" => HasCurrentSensor(v))

\* the plots view's main return reads currentSensor.name outside any guard:
\* it throws if no sensor of the collection is the selected one
RenderThrows(v) == v.page = "plots" /\ Display(v) = "main" /\ ~HasCurrentSensor(v)

ErrorShown(v) == PanelRendered(v) /\ TruthyError(v.error)

\* the table, or the statistics and charts
ReadingsShown(v) ==
  PanelRendered(v) /\ ~v.readingsLoading /\ ~TruthyError(v.error) /\ Len(v.readings) > 0

\* the loader of the readings panel: {readingsLoading && ...} / {loading && ...}
LoadingShown(v) == PanelRendered(v) /\ v.readingsLoading

\* the empty state ("No readings found for this sensor" / "No Data Available")
EmptyShown(v) ==
  PanelRendered(v) /\ ~v.readingsLoading /\ ~TruthyError(v.error) /\ Len(v.readings) = 0

\* the displays of the readings panel a render shows; a render that throws
\* shows none
PanelDisplays(v) ==
  IF RenderThrows(v) THEN {}
  ELSE {d \in {"loading", "error", "empty", "populated"} :
          \/ d = "loading" /\ LoadingShown(v)
          \/ d = "error" /\ ErrorShown(v)
          \/ d = "empty" /\ EmptyShown(v)
          \/ d = "populated" /\ ReadingsShown(v)}

\* Math.ceil(readings.length / readingsPerPage)
totalPages(v) == (Len(v.readings) + readingsPerPage - 1) \div readingsPerPage

PaginationShown(v) == v.page = "sensors" /\ ReadingsShown(v) /\ totalPages(v) > 1

\* the Page Numbers of the pagination control: what it renders for each
\* pageNum of 1..totalPages, with the ellipsis at every page that gets no
\* button
PageNumbersAllEllipses(v) ==
  [pageNum \in 1..totalPages(v) |->
     IF pageNum = 1 \/ pageNum = totalPages(v)
          \/ (pageNum >= v.currentPage - 1 /\ pageNum <= v.currentPage + 1)
       THEN "button"
     ELSE "ellipsis"]

\* the Page Numbers of the pagination control: what [...Array(totalPages)].map
\* renders for each pageNum = index + 1
PageNumbers(v) ==
  [pageNum \in 1..totalPages(v) |->
     IF pageNum = 1 \/ pageNum = totalPages(v)
          \/ (pageNum >= v.currentPage - 1 /\ pageNum <= v.currentPage + 1)
       THEN "button"
     ELSE IF pageNum = v.currentPage - 2 \/ pageNum = v.currentPage + 2
       THEN "ellipsis"
     ELSE "null"]

\* the page buttons with pageNum = index, the + 1 forgotten
PageButtonsFromZero(v) ==
  {p \in 0..(totalPages(v) - 1) :
     p = 1 \/ p = totalPages(v) \/ (p >= v.currentPage - 1 /\ p <= v.currentPage + 1)}

\* the page numbers the pagination control renders a button for
PageButtons(v) ==
  {p \in 1..totalPages(v) :
     p = 1 \/ p = totalPages(v) \/ (p >= v.currentPage - 1 /\ p <= v.currentPage + 1)}

(* ---------------------------- AuthContext ----------------------------- *)

\* logout(): clears the token and flips isAuthenticated, synchronously
logout == [token |-> NoToken, isAuthenticated |-> FALSE]

\* login() succeeding: a new session with a token of its own
login(n) == [token |-> n, isAuthenticated |-> TRUE]

(* ----------------------------- requests ------------------------------- *)

\* fetch('/sensors', {headers: {Authorization: `Bearer ${token}`}})
SensorsRequest(k, v, tok) ==
  [seq |-> k, kind |-> "sensors", page |-> v.page, inst |-> v.inst,
   sensor |-> NoSensor, range |-> "", token |-> tok]

\* the readings fetch with no headers, as the legacy dashboard issues it
ReadingsRequestNoHeader(k, v, tok) ==
  [seq |-> k, kind |-> "readings", page |-> v.page, inst |-> v.inst,
   sensor |-> v.selectedSensor, range |-> RangeOf(v), token |-> NoToken]

\* fetch(`/sensors/${sensorId}/readings?range=...`, {headers: {Authorization: ...}})
\* both callers pass selectedSensor as sensorId
ReadingsRequest(k, v, tok) ==
  [seq |-> k, kind |-> "readings", page |-> v.page, inst |-> v.inst,
   sensor |-> v.selectedSensor, range |-> RangeOf(v), token |-> tok]

LatestOf(r) ==
  [req |-> r.seq, sensor |-> r.sensor, range |-> r.range, arrived |-> FALSE,
   status |-> 0, n |-> 0]

\* the logout callback scheduled with no delay
LogoutTimerAtOnce(r) == [req |-> r.seq, remaining |-> 0, token |-> r.token]

\* setTimeout(() => logout(), 2000), on behalf of request r
LogoutTimer(r) == [req |-> r.seq, remaining |-> LogoutDelay, token |-> r.token]

\* the component instance that issued r is still the mounted one; React drops
\* the state updates of an instance that has unmounted
Mounted(r) == comp.page # "login" /\ r.inst = comp.inst

(* ------------------------------ actions ------------------------------- *)

\* a view whose mount effect, useEffect(..., [token, logout]), never runs
MountEffectNone(v, tok) == {}

\* the mount effect of a view, useEffect(() => { fetchSensors() }, [token,
\* logout]): the requests it issues when instance v mounts under token tok
MountEffect(v, tok) == {SensorsRequest(issued + 1, v, tok)}

\* AppContent renders under the given session and active page: the component
\* it shows is kept if it is the one shown already, else the old one unmounts
\* and a new instance mounts; after its first render both of its effects
\* run, the mount effect, which starts the sensors loader, and the readings
\* effect.
Rerender(auth, tok, page) ==
  LET shown == AppContent(auth, page)
      fresh == InitialView(shown, mounts + 1)
      e == ReadingsEffect(fresh)
      k == issued + Cardinality(MountEffect(fresh, tok))
  IN  IF shown = comp.page
        THEN UNCHANGED <<comp, requests, issued, mounts, latest>>
      ELSE IF shown = "login"
        THEN /\ comp' = LoginView
             /\ latest' = NoLatest
             /\ UNCHANGED <<requests, issued, mounts>>
      ELSE /\ issued < MaxRequests
           /\ comp' = e.view
           /\ mounts' = mounts + 1
           /\ requests' = requests \cup MountEffect(fresh, tok)
                             \cup (IF e.fetch THEN {ReadingsRequest(k + 1, e.view, tok)}
                                              ELSE {})
           /\ issued' = IF e.fetch THEN k + 1 ELSE k
           /\ latest' = IF e.fetch THEN LatestOf(ReadingsRequest(k + 1, e.view, tok))
                                   ELSE NoLatest

\* a step of the mounted view ends with view state v, the fetches in pending
\* still in flight and, with fetch, a readings loader started
Commit(v, fetch, pending) ==
  IF fetch
    THEN /\ issued < MaxRequests
         /\ comp' = v
         /\ requests' = pending \cup {ReadingsRequest(issued + 1, v, token)}
         /\ issued' = issued + 1
         /\ latest' = LatestOf(ReadingsRequest(issued + 1, v, token))
    ELSE /\ comp' = v
         /\ requests' = pending
         /\ UNCHANGED <<issued, latest>>

\* the login page's form succeeds
Login ==
  /\ ~isAuthenticated
  /\ token' = login(sessions + 1).token
  /\ isAuthenticated' = login(sessions + 1).isAuthenticated
  /\ sessions' = sessions + 1
  /\ Rerender(isAuthenticated', token', activePage)
  /\ last' = NoEvent
  /\ UNCHANGED <<activePage, timers>>

\* the Logout button of the navigation bar (or of the plots view's empty state)
ClickLogout ==
  /\ comp.page # "login"
  /\ token' = logout.token
  /\ isAuthenticated' = logout.isAuthenticated
  /\ Rerender(isAuthenticated', token', activePage)
  /\ last' = NoEvent
  /\ UNCHANGED <<activePage, timers, sessions>>

\* the My Plots / My Sensors tabs: setActivePage(p)
SetActivePage(p) ==
  /\ comp.page # "login"
  /\ p # activePage
  /\ activePage' = p
  /\ Rerender(isAuthenticated, token, p)
  /\ last' = NoEvent
  /\ UNCHANGED <<token, isAuthenticated, timers, sessions>>

\* a /sensors fetch settles and its loader resumes; a render follows, and the
\* readings effect if the loader changed one of its dependencies
SensorsSettle(r, resp) ==
  /\ r \in requests /\ r.kind = "sensors"
  /\ resp \in SensorsResponses
  /\ LET s == IF r.page = "sensors" THEN fetchSensors(comp, resp)
                                    ELSE fetchUserSensors(comp, resp)
         e == AfterRender(comp, s.view)
     IN  /\ timers' = IF s.setTimeout THEN timers \cup {LogoutTimer(r)} ELSE timers
         /\ IF Mounted(r)
              THEN Commit(e.view, e.fetch, requests \ {r})
              ELSE /\ requests' = requests \ {r}
                   /\ UNCHANGED <<comp, issued, latest>>
  /\ last' = Settling(r, resp, Mounted(r))
  /\ UNCHANGED <<token, isAuthenticated, activePage, mounts, sessions>>

\* a readings fetch settles and its loader resumes; a render follows, and the
\* readings effect if the loader changed one of its dependencies
ReadingsSettle(r, resp) ==
  /\ r \in requests /\ r.kind = "readings"
  /\ resp \in ReadingsResponses(r)
  /\ LET s == IF r.page = "sensors" THEN fetchReadings(comp, resp)
                                    ELSE fetchSensorReadings(comp, resp)
         e == AfterRender(comp, s.view)
     IN  /\ timers' = IF s.setTimeout THEN timers \cup {LogoutTimer(r)} ELSE timers
         /\ IF ~Mounted(r)
              THEN /\ requests' = requests \ {r}
                   /\ UNCHANGED <<comp, issued, latest>>
            ELSE IF e.fetch
              THEN Commit(e.view, TRUE, requests \ {r})
            ELSE /\ comp' = e.view
                 /\ requests' = requests \ {r}
                 /\ latest' = IF r.seq = latest.req
                                THEN [latest EXCEPT !.arrived = TRUE,
                                                    !.status = resp.status,
                                                    !.n = Len(resp.body)]
                                ELSE latest
                 /\ UNCHANGED issued
  /\ last' = Settling(r, resp, Mounted(r))
  /\ UNCHANGED <<token, isAuthenticated, activePage, mounts, sessions>>

\* the sensor list's buttons (table view) or the sensor <select> (plots view):
\* setSelectedSensor(id); choosing the selected sensor again changes nothing
SelectSensor(id) ==
  /\ Display(comp) = "main"
  /\ id \in SensorIdsOf(comp)
  /\ id # comp.selectedSensor
  /\ LET e == ReadingsEffect([comp EXCEPT !.selectedSensor = id])
     IN  Commit(e.view, e.fetch, requests)
  /\ last' = NoEvent
  /\ UNCHANGED <<token, isAuthenticated, activePage, timers, mounts, sessions>>

\* the plots view's time-range <select>: setTimeRange(t)
SelectTimeRange(t) ==
  /\ comp.page = "plots" /\ Display(comp) = "main"
  /\ t \in TimeRanges /\ t # comp.timeRange
  /\ LET e == SensorOrRangeEffect([comp EXCEPT !.timeRange = t])
     IN  Commit(e.view, e.fetch, requests)
  /\ last' = NoEvent
  /\ UNCHANGED <<token, isAuthenticated, activePage, timers, mounts, sessions>>

\* the plots view's Refresh button, disabled while loading
Refresh ==
  /\ comp.page = "plots" /\ Display(comp) = "main"
  /\ ~comp.readingsLoading
  /\ Commit(fetchReadingsStart(comp), TRUE, requests)
  /\ last' = [NoEvent EXCEPT !.op = "refresh"]
  /\ UNCHANGED <<token, isAuthenticated, activePage, timers, mounts, sessions>>

\* the plots view's Show CO2 checkbox: setShowCO2(e.target.checked), and the
\* render that follows
ToggleCO2 ==
  /\ comp.page = "plots" /\ Display(comp) = "main"
  /\ LET e == AfterRender(comp, [comp EXCEPT !.showCO2 = ~@])
     IN  Commit(e.view, e.fetch, requests)
  /\ last' = [NoEvent EXCEPT !.op = "toggleCO2"]
  /\ UNCHANGED <<token, isAuthenticated, activePage, timers, mounts, sessions>>

\* the plots view's Show Temperature checkbox: setShowTemp(e.target.checked)
ToggleTemp ==
  /\ comp.page = "plots" /\ Display(comp) = "main"
  /\ LET e == AfterRender(comp, [comp EXCEPT !.showTemp = ~@])
     IN  Commit(e.view, e.fetch, requests)
  /\ last' = [NoEvent EXCEPT !.op = "toggleTemp"]
  /\ UNCHANGED <<token, isAuthenticated, activePage, timers, mounts, sessions>>

Min(a, b) == IF a < b THEN a ELSE b
Max(a, b) == IF a > b THEN a ELSE b

\* goToNextPage without its Math.min
goToNextPageUnclamped(v) == [v EXCEPT !.currentPage = @ + 1]

\* setCurrentPage(prev => Math.min(prev + 1, totalPages))
goToNextPage(v) == [v EXCEPT !.currentPage = Min(@ + 1, totalPages(v))]
\* setCurrentPage(prev => Math.max(prev - 1, 1))
goToPrevPage(v) == [v EXCEPT !.currentPage = Max(@ - 1, 1)]
\* setCurrentPage(pageNumber)
goToPage(v, pageNumber) == [v EXCEPT !.currentPage = pageNumber]

\* Array.prototype.slice(a, b): the elements at the 0-based indexes a..b-1,
\* a negative index counting from the end, both clamped to the array
Slice(s, a, b) ==
  LET from == IF a < 0 THEN Max(Len(s) + a, 0) ELSE Min(a, Len(s))
      to == IF b < 0 THEN Max(Len(s) + b, 0) ELSE Min(b, Len(s))
  IN  [i \in 1..(to - from) |-> s[from + i]]

indexOfLastReading(v) == v.currentPage * readingsPerPage

\* indexOfFirstReading one reading late
indexOfFirstReadingOffByOne(v) == indexOfLastReading(v) - readingsPerPage + 1

indexOfFirstReading(v) == indexOfLastReading(v) - readingsPerPage

\* the rows of the table: readings.slice(indexOfFirstReading, indexOfLastReading)
currentReadings(v) == Slice(v.readings, indexOfFirstReading(v), indexOfLastReading(v))

\* the pagination control's next button, disabled on the last page
ClickNext ==
  /\ PaginationShown(comp)
  /\ comp.currentPage # totalPages(comp)
  /\ LET e == AfterRender(comp, goToNextPage(comp))
     IN  Commit(e.view, e.fetch, requests)
  /\ last' = [NoEvent EXCEPT !.op = "goToNextPage"]
  /\ UNCHANGED <<token, isAuthenticated, activePage, timers, mounts, sessions>>

\* the pagination control's previous button, disabled on page 1
ClickPrev ==
  /\ PaginationShown(comp)
  /\ comp.currentPage # 1
  /\ LET e == AfterRender(comp, goToPrevPage(comp))
     IN  Commit(e.view, e.fetch, requests)
  /\ last' = [NoEvent EXCEPT !.op = "goToPrevPage"]
  /\ UNCHANGED <<token, isAuthenticated, activePage, timers, mounts, sessions>>

\* a page-number button of the pagination control
ClickPage(p) ==
  /\ PaginationShown(comp)
  /\ p \in PageButtons(comp)
  /\ p # comp.currentPage
  /\ LET e == AfterRender(comp, goToPage(comp, p))
     IN  Commit(e.view, e.fetch, requests)
  /\ last' = [NoEvent EXCEPT !.op = "goToPage", !.page = p]
  /\ UNCHANGED <<token, isAuthenticated, activePage, timers, mounts, sessions>>

\* time passes
Tick ==
  /\ \E t \in timers : t.remaining > 0
  /\ timers' = {[t EXCEPT !.remaining = Max(@ - TickMs, 0)] : t \in timers}
  /\ last' = NoEvent
  /\ UNCHANGED <<token, isAuthenticated, activePage, comp, requests, issued,
                 mounts, sessions, latest>>

\* a logout timer's delay has passed and its callback runs: logout()
TimerFires(t) ==
  /\ t \in timers /\ t.remaining = 0
  /\ timers' = timers \ {t}
  /\ token' = logout.token
  /\ isAuthenticated' = logout.isAuthenticated
  /\ Rerender(isAuthenticated', token', activePage)
  /\ last' = [NoEvent EXCEPT !.op = "timer", !.seq = t.req]
  /\ UNCHANGED <<activePage, sessions>>

\* Nobody is logged in and nothing is in flight. activePage is state of
\* AppContent, which stays mounted across sessions: it is 'plots' at first and
\* the tab of the previous session afterwards.
Init ==
  /\ token = NoToken
  /\ isAuthenticated = FALSE
  /\ activePage \in Pages
  /\ comp = LoginView
  /\ requests = {}
  /\ timers = {}
  /\ issued = 0
  /\ mounts = 0
  /\ sessions = 0
  /\ latest = NoLatest
  /\ last = NoEvent

\* ToggleCO2 and ToggleTemp write showCO2 and showTemp only, which no loader,
\* effect or render guard reads: the steps of Spec leave them out, those of
\* ViewSpec have them.
Next ==
  \/ Login
  \/ ClickLogout
  \/ \E p \in Pages : SetActivePage(p)
  \/ \E r \in requests : \E resp \in SensorsResponses : SensorsSettle(r, resp)
  \/ \E r \in requests : \E resp \in ReadingsResponses(r) : ReadingsSettle(r, resp)
  \/ \E id \in SensorIds : SelectSensor(id)
  \/ \E t \in TimeRanges : SelectTimeRange(t)
  \/ Refresh
  \/ ClickNext
  \/ ClickPrev
  \/ \E p \in 1..(totalPages(comp)) : ClickPage(p)
  \/ Tick
  \/ \E t \in timers : TimerFires(t)

Spec == Init /\ [][Next]_vars

(* ------------- one view, with its display controls ------------------- *)

\* The state the first login leaves: the view of the active tab has mounted
\* and its sensors request is in flight.
ViewInit ==
  /\ token = login(1).token
  /\ isAuthenticated = login(1).isAuthenticated
  /\ activePage \in Pages
  /\ comp = InitialView(activePage, 1)
  /\ requests = {SensorsRequest(1, comp, token)}
  /\ timers = {}
  /\ issued = 1
  /\ mounts = 1
  /\ sessions = 1
  /\ latest = NoLatest
  /\ last = NoEvent

\* what happens to the view while the user stays on its tab and logged in:
\* the steps of Next that leave AppContent alone, and the display toggles
ViewNext ==
  \/ \E r \in requests : \E resp \in SensorsResponses : SensorsSettle(r, resp)
  \/ \E r \in requests : \E resp \in ReadingsResponses(r) : ReadingsSettle(r, resp)
  \/ \E id \in SensorIds : SelectSensor(id)
  \/ \E t \in TimeRanges : SelectTimeRange(t)
  \/ Refresh
  \/ ToggleCO2
  \/ ToggleTemp
  \/ ClickNext
  \/ ClickPrev
  \/ \E p \in 1..(totalPages(comp)) : ClickPage(p)

ViewSpec == ViewInit /\ [][ViewNext]_vars

(* ------------------ the pagination of the table ----------------------- *)

\* A table view with sensors 1 and 2, in the state the race of two readings
\* requests leaves it in: sensor 1 was selected at first (request 2), the
\* user chose sensor 2 (request 3), request 3 has been answered with n
\* readings and the user has gone to page p of them (page 1 of the empty
\* collection); request 2 is still in flight.
PagingView(n, p) ==
  [InitialView("sensors", 1) EXCEPT !.sensors = <<[id |-> 1], [id |-> 2]>>,
                                    !.selectedSensor = 2,
                                    !.readings = ReadingsBody(2, "30d", 3, n),
                                    !.sensorsLoading = FALSE,
                                    !.currentPage = p]

PagingInit ==
  /\ token = login(1).token
  /\ isAuthenticated = TRUE
  /\ activePage = "sensors"
  /\ \E n \in 0..MaxPagingReadings :
       \E p \in 1..Max(1, (n + readingsPerPage - 1) \div readingsPerPage) :
         comp = PagingView(n, p)
  /\ requests = {ReadingsRequest(2, [comp EXCEPT !.selectedSensor = 1], token)}
  /\ timers = {}
  /\ issued = 3
  /\ mounts = 1
  /\ sessions = 1
  /\ latest = [LatestOf(ReadingsRequest(3, comp, token))
                  EXCEPT !.arrived = TRUE, !.status = 200, !.n = Len(comp.readings)]
  /\ last = NoEvent

\* goToNextPage() is called
CallNextPage ==
  /\ comp' = goToNextPage(comp)
  /\ last' = [NoEvent EXCEPT !.op = "goToNextPage"]
  /\ UNCHANGED <<token, isAuthenticated, activePage, requests, timers, issued,
                 mounts, sessions, latest>>

\* goToPrevPage() is called
CallPrevPage ==
  /\ comp' = goToPrevPage(comp)
  /\ last' = [NoEvent EXCEPT !.op = "goToPrevPage"]
  /\ UNCHANGED <<token, isAuthenticated, activePage, requests, timers, issued,
                 mounts, sessions, latest>>

\* the readings fetch still in flight settles with 200 and n readings:
\* fetchReadings replaces the collection and leaves currentPage alone
LateReadingsSettle(r, n) ==
  /\ r \in requests /\ r.kind = "readings"
  /\ n \in 0..MaxPagingReadings
  /\ LET resp == HttpResponse(200, FALSE, "", ReadingsBody(r.sensor, r.range, r.seq, n))
     IN  /\ comp' = AfterRender(comp, fetchReadings(comp, resp).view).view
         /\ last' = [Settling(r, resp, TRUE) EXCEPT !.body = <<>>]
  /\ requests' = requests \ {r}
  /\ UNCHANGED <<token, isAuthenticated, activePage, timers, issued, mounts,
                 sessions, latest>>

PagingNext ==
  \/ CallNextPage
  \/ CallPrevPage
  \/ \E p \in PageButtons(comp) : ClickPage(p)
  \/ \E r \in requests : \E n \in 0..MaxPagingReadings : LateReadingsSettle(r, n)

PagingSpec == PagingInit /\ [][PagingNext]_vars

(* ------------- what a render derives from the readings --------------- *)

\* A number is kept in thousandths, as the quotient num / den of integers;
\* NaN is what 0 / 0 gives. toFixed(2) gives the text of a number of
\* hundredths, kept as that number of hundredths.
Quotient(n, d) == [nan |-> FALSE, num |-> n, den |-> d]
NaN == [nan |-> TRUE, num |-> 0, den |-> 1]
Fixed(h) == [nan |-> FALSE, hundredths |-> h]
FixedNaN == [nan |-> TRUE, hundredths |-> 0]

\* a / n of JavaScript numbers
Divide(a, n) == IF n = 0 THEN (IF a = 0 THEN NaN ELSE Quotient(a, 0)) ELSE Quotient(a, n)

\* x || 0 left out
OrZeroLeftOut(x) == x

\* x || 0: NaN and 0 are falsy
OrZero(x) == IF x.nan \/ x.num = 0 THEN Quotient(0, 1) ELSE x

\* Number.prototype.toFixed(2): the nearest number of hundredths, the sign
\* set aside and a tie going to the larger magnitude; "NaN" for NaN
ToFixed2(x) ==
  IF x.nan THEN FixedNaN
  ELSE LET mag == IF x.num < 0 THEN -x.num ELSE x.num
           h == (2 * mag + 10 * x.den) \div (20 * x.den)
       IN  Fixed(IF x.num < 0 THEN -h ELSE h)

RECURSIVE SumOf(_)
\* reduce((sum, r) => sum + r, 0)
SumOf(s) == IF Len(s) = 0 THEN 0 ELSE s[1] + SumOf(Tail(s))

\* Math.max of a non-empty argument list
MathMax(S) == CHOOSE x \in S : \A y \in S : y <= x

Co2Of(v) == [i \in 1..Len(v.readings) |-> v.readings[i].co2]
TemperatureOf(v) == [i \in 1..Len(v.readings) |-> v.readings[i].temperature]
Range(s) == {s[i] : i \in 1..Len(s)}

\* the stats object of the plots view
stats(v) ==
  [avgCO2 |-> ToFixed2(OrZero(Divide(SumOf(Co2Of(v)), Len(v.readings)))),
   maxCO2 |-> ToFixed2(Quotient(MathMax(Range(Co2Of(v)) \cup {0}), 1)),
   avgTemp |-> ToFixed2(OrZero(Divide(SumOf(TemperatureOf(v)), Len(v.readings)))),
   maxTemp |-> ToFixed2(Quotient(MathMax(Range(TemperatureOf(v)) \cup {0}), 1)),
   totalReadings |-> Len(v.readings)]

\* toLocaleTimeString('en-US', {hour: '2-digit', minute: '2-digit', hour12: false})
TimeLabel(t) == [hour |-> t.hour, minute |-> t.minute]
\* toLocaleString()
FullDate(t) == t

\* chartData built back to front
chartDataReversed(v) ==
  [i \in 1..Len(v.readings) |->
     LET reading == v.readings[Len(v.readings) + 1 - i]
     IN  [timestamp |-> TimeLabel(reading.timestamp),
          co2 |-> ToFixed2(Quotient(reading.co2, 1)),
          temperature |-> ToFixed2(Quotient(reading.temperature, 1)),
          fullDate |-> FullDate(reading.timestamp)]]

\* chartData of the plots view: sensorReadings.map(reading => ({...}))
chartData(v) ==
  [i \in 1..Len(v.readings) |->
     LET reading == v.readings[i]
     IN  [timestamp |-> TimeLabel(reading.timestamp),
          co2 |-> ToFixed2(Quotient(reading.co2, 1)),
          temperature |-> ToFixed2(Quotient(reading.temperature, 1)),
          fullDate |-> FullDate(reading.timestamp)]]

\* a tx_signature is absent or a string, kept as its characters
NoSignature == [present |-> FALSE, chars |-> <<>>]
Signature(chars) == [present |-> TRUE, chars |-> chars]

RECURSIVE TrimStart(_)
TrimStart(c) == IF Len(c) > 0 /\ c[1] = " " THEN TrimStart(Tail(c)) ELSE c
RECURSIVE TrimEnd(_)
TrimEnd(c) ==
  IF Len(c) > 0 /\ c[Len(c)] = " " THEN TrimEnd(SubSeq(c, 1, Len(c) - 1)) ELSE c
\* String.prototype.trim
Trim(c) == TrimEnd(TrimStart(c))

\* hasBlockchainProof without its trim() test
hasBlockchainProofUntrimmed(reading) ==
  reading.tx_signature.present /\ reading.tx_signature.chars # <<>>

\* ReadingRow: reading.tx_signature && reading.tx_signature.trim() !== ''
hasBlockchainProof(reading) ==
  /\ reading.tx_signature.present /\ reading.tx_signature.chars # <<>>
  /\ Trim(reading.tx_signature.chars) # <<>>

ExplorerPrefix == <<"https://explorer.solana.com/tx/">>
ExplorerSuffix == <<"?cluster=devnet">>

\* the cells of a table row
ReadingRow(reading) ==
  [timestamp |-> reading.timestamp,
   co2 |-> ToFixed2(Quotient(reading.co2, 1)),
   temperature |-> ToFixed2(Quotient(reading.temperature, 1)),
   badge |-> IF hasBlockchainProof(reading) THEN "Verified" ELSE "Pending",
   link |-> hasBlockchainProof(reading),
   href |-> IF hasBlockchainProof(reading)
              THEN ExplorerPrefix \o reading.tx_signature.chars \o ExplorerSuffix
              ELSE <<>>]

\* the rows of the table: currentReadings.map(reading => <ReadingRow .../>)
TableRows(v) == [i \in 1..Len(currentReadings(v)) |-> ReadingRow(currentReadings(v)[i])]

(* -------------- the readings of a response, measured ------------------ *)

\* co2 and temperature in thousandths: 400, 412.345; -5, -3, 20, 21.678
Co2Values == {400000, 412345}
TemperatureValues == {-5000, -3000, 20000, 21678}
Signatures ==
  {NoSignature, Signature(<<>>), Signature(<<" ">>),
   Signature(<<"a", "b", "c", "1", "2", "3">>)}

Measurements ==
  [co2 : Co2Values, temperature : TemperatureValues, tx_signature : Signatures]

\* the reading collections a response may carry: reading i is taken at
\* minute i and carries any of the measurements
MeasuredBodies ==
  UNION {{[i \in 1..n |->
             [id |-> i,
              timestamp |-> [day |-> 1, hour |-> 0, minute |-> i, second |-> 30],
              co2 |-> f[i].co2, temperature |-> f[i].temperature,
              tx_signature |-> f[i].tx_signature]] : f \in [1..n -> Measurements]}
           : n \in 0..MaxRenderLen}

\* a view of either page with its sensors loaded, sensor 1 selected and the
\* readings request of the selection in flight
RenderView(page) ==
  fetchReadingsStart([InitialView(page, 1) EXCEPT !.sensors = <<[id |-> 1]>>,
                                                  !.selectedSensor = 1,
                                                  !.sensorsLoading = FALSE])

RenderInit ==
  /\ token = login(1).token
  /\ isAuthenticated = TRUE
  /\ activePage \in Pages
  /\ comp = RenderView(activePage)
  /\ requests = {ReadingsRequest(2, comp, token)}
  /\ timers = {}
  /\ issued = 2
  /\ mounts = 1
  /\ sessions = 1
  /\ latest = LatestOf(ReadingsRequest(2, comp, token))
  /\ last = NoEvent

\* the readings fetch settles with 200 and the given body, and the view
\* renders it
MeasuredReadingsSettle(r, body) ==
  /\ r \in requests /\ r.kind = "readings"
  /\ body \in MeasuredBodies
  /\ LET resp == HttpResponse(200, FALSE, "", body)
         s == IF r.page = "sensors" THEN fetchReadings(comp, resp)
                                    ELSE fetchSensorReadings(comp, resp)
     IN  /\ comp' = AfterRender(comp, s.view).view
         /\ last' = [Settling(r, resp, TRUE) EXCEPT !.body = <<>>]
  /\ requests' = requests \ {r}
  /\ latest' = [latest EXCEPT !.arrived = TRUE, !.status = 200, !.n = Len(body)]
  /\ UNCHANGED <<token, isAuthenticated, activePage, timers, issued, mounts, sessions>>

RenderNext == \E r \in requests : \E body \in MeasuredBodies : MeasuredReadingsSettle(r, body)

RenderSpec == RenderInit /\ [][RenderNext]_vars

(* ------------------------------ claims -------------------------------- *)

\* the readings fetches of the mounted instance that are still in flight
Outstanding == {r \in requests : r.kind = "readings" /\ Mounted(r)}

\* the body the latest-issued readings request was answered with
LatestBody == ReadingsBody(latest.sensor, latest.range, latest.req, latest.n)

\* C1: once every readings response has arrived, and the latest-issued
\* request succeeded, the Reading collection of the view is the response of
\* the latest-issued request, never that of an earlier one.
C1_LatestResponseWins ==
  (comp.page # "login" /\ Outstanding = {} /\ latest.arrived /\ latest.status = 200)
    => comp.readings = LatestBody

\* C2: the readings a view shows for a selected sensor, with no readings
\* request in flight, are readings of the selected sensor and time range.
C2_ReadingsOfSelection ==
  (ReadingsShown(comp) /\ Outstanding = {} /\ TruthyId(comp.selectedSensor))
    => \A i \in 1..Len(comp.readings) :
         /\ comp.readings[i].sensor = comp.selectedSensor
         /\ comp.readings[i].range = RangeOf(comp)

\* C3: in the table view currentPage is within [1, totalPages] in every state
\* (for the empty collection, whose totalPages is 0, page 1 is accepted).
C3_PageInRange ==
  comp.page = "sensors" =>
    (comp.currentPage >= 1 /\ comp.currentPage <= Max(1, totalPages(comp)))

\* C4: after a 401 to /sensors the view shows "Session expired. Please log in
\* again." and the logout is scheduled once, 2000 ms ahead.
C4_SessionExpiredShown ==
  (last.op = "sensors" /\ last.applied /\ last.ok /\ last.status = 401)
    => /\ ErrorShown(comp)
       /\ comp.error = TextError(SessionExpiredMsg)
       /\ Cardinality({t \in timers : t.req = last.seq}) = 1
       /\ \A t \in timers : t.req = last.seq => t.remaining = LogoutDelay

\* C5: after a 200 to /sensors with collection S, an empty S leaves the view
\* on "No Sensors Found" with no sensor selected, and a non-empty S makes the
\* sensor collection S and selectedSensor S[0].id.
C5_SensorsSuccess ==
  (last.op = "sensors" /\ last.applied /\ last.ok /\ last.status = 200)
    => IF Len(last.body) = 0
         THEN /\ Display(comp) = "noSensors"
              /\ comp.selectedSensor = NoSensor
         ELSE /\ comp.sensors = last.body
              /\ comp.selectedSensor = last.body[1].id
              /\ Display(comp) = "main"

C5_Witness ==
  /\ last.op = "sensors" /\ last.applied /\ last.ok /\ last.status = 200
  /\ Len(last.body) = 2
  /\ comp.selectedSensor = last.body[1].id

\* C6: a step schedules a logout exactly when it is a loader resuming with a
\* 401, of either loader, of either view, mounted or not; the logout it
\* schedules is LogoutDelay ms ahead.
C6_LogoutOn401Only ==
  [][LET settles == last'.op \in {"sensors", "readings"}
         new == timers' \ timers
     IN  IF settles /\ last'.ok /\ last'.status = 401
           THEN \E t \in timers' :
                  /\ t.req = last'.seq
                  /\ t.remaining = LogoutDelay
                  /\ timers' = timers \cup {t}
           ELSE {t.req : t \in timers'} \subseteq {t.req : t \in timers}]_vars

C6_Witness ==
  /\ last.op = "readings" /\ last.ok /\ last.status = 401
  /\ \E t \in timers : t.req = last.seq /\ t.remaining = LogoutDelay

\* C7: while nobody is logged in the login page is what is rendered, and no
\* step that ends logged out issues a request; every request issued carries
\* the token of the session current at that step.
C7_NoRequestLoggedOut ==
  [][/\ ~isAuthenticated' => (comp'.page = "login" /\ requests' \subseteq requests)
     /\ \A r \in requests' \ requests :
          isAuthenticated' /\ r.token = token' /\ r.token # NoToken]_vars

C7_Witness ==
  /\ ~isAuthenticated /\ sessions > 0 /\ comp.page = "login"
  /\ \E r \in requests : r.kind = "readings"

\* C8: the completion of a request whose view has unmounted changes no
\* displayed state and schedules no logout.
C8_StaleCompletionInert ==
  [][(last'.op \in {"sensors", "readings"} /\ ~last'.applied /\ last' # last)
       => (comp' = comp /\ timers' = timers)]_vars

C10_PageResetOnSensorChange ==
  [][(comp.page = "sensors" /\ comp'.page = "sensors" /\ comp'.inst = comp.inst
        /\ comp'.selectedSensor # comp.selectedSensor)
       => comp'.currentPage = 1]_vars

\* C11: goToNextPage and goToPrevPage leave currentPage within
\* [1, totalPages], for every size of the reading collection, the empty
\* collection included (whose totalPages is 0: page 1 is accepted there).
C11_HandlersKeepPageInRange ==
  last.op \in {"goToNextPage", "goToPrevPage"}
    => (comp.currentPage >= 1 /\ comp.currentPage <= Max(1, totalPages(comp)))

\* C12: goToNextPage on the last page and goToPrevPage on page 1 leave
\* currentPage as it is, and neither handler changes the reading collection,
\* the selected sensor or the error.
C12_NoOpAtTheEnds ==
  [][/\ (last'.op = "goToNextPage" /\ comp.currentPage = totalPages(comp))
          => comp'.currentPage = comp.currentPage
     /\ (last'.op = "goToPrevPage" /\ comp.currentPage = 1)
          => comp'.currentPage = comp.currentPage
     /\ last'.op \in {"goToNextPage", "goToPrevPage"}
          => /\ comp'.readings = comp.readings
             /\ comp'.selectedSensor = comp.selectedSensor
             /\ comp'.error = comp.error]_vars

C12_Witness ==
  /\ last.op = "goToNextPage"
  /\ totalPages(comp) >= 2 /\ comp.currentPage = totalPages(comp)

\* the rows page p shows
PageOf(p) == currentReadings([comp EXCEPT !.currentPage = p])

RECURSIVE PagesUpTo(_)
\* the rows of pages 1..p, one page after the other
PagesUpTo(p) == IF p <= 0 THEN <<>> ELSE PagesUpTo(p - 1) \o PageOf(p)

\* C13: for N readings totalPages is ceil(N / 10), page p of 1..totalPages
\* shows the readings (p-1)*10+1 .. min(p*10, N) in order, and the pages one
\* after the other are the whole collection.
C13_PagesPartition ==
  LET N == Len(comp.readings)
      tp == totalPages(comp)
  IN  comp.page = "sensors" =>
        /\ tp * 10 >= N /\ (tp - 1) * 10 < N
        /\ \A p \in 1..tp :
             LET first == (p - 1) * 10 + 1
                 lastOne == IF p * 10 < N THEN p * 10 ELSE N
             IN  PageOf(p) = [i \in 1..(lastOne - first + 1) |-> comp.readings[first + i - 1]]
        /\ PagesUpTo(tp) = comp.readings

C13_Witness ==
  /\ Len(comp.readings) = 25 /\ totalPages(comp) = 3 /\ comp.currentPage = 3
  /\ Len(currentReadings(comp)) = 5
  /\ currentReadings(comp)[1].id = 21 /\ currentReadings(comp)[5].id = 25
  /\ Len(PageOf(1)) = 10 /\ PageOf(1)[10].id = 10

\* C14: after a transport-level failure of the sensors request or of the
\* readings request, in either view, the error of the view is the raw failure
\* description.
C14_TransportFailureSurfaced ==
  (last.op \in {"sensors", "readings"} /\ last.applied /\ ~last.ok)
    => comp.error = TextError(last.msg)

\* C15: after a failure of either loader (an error status or a transport
\* failure) the loader's loading flag is false and the view renders one of
\* its displays: "No Sensors Found" after a sensors failure, the panel with
\* the error after a readings failure, its selected sensor a sensor of the
\* collection; the render does not throw.
C15_FailureIsRenderable ==
  (last.op \in {"sensors", "readings"} /\ last.applied /\ ~(last.ok /\ last.status = 200))
    => /\ last.op = "sensors" => (~comp.sensorsLoading /\ Display(comp) = "noSensors")
       /\ last.op = "readings" =>
            (~comp.readingsLoading /\ Display(comp) = "main" /\ ErrorShown(comp)
               /\ ~ReadingsShown(comp))
       /\ Display(comp) = "main" => HasCurrentSensor(comp)
       /\ ~RenderThrows(comp)

C15_Witness ==
  /\ last.op = "readings" /\ last.applied /\ ~last.ok
  /\ comp.page = "plots" /\ ErrorShown(comp) /\ Len(comp.readings) > 0

\* C16: the step in which a sensors or readings fetch settles, whatever its
\* outcome, is the one step of that attempt: it takes the request out of
\* flight and leaves the loader's loading flag false; and a loading flag of a
\* mounted view goes from true to false in no other step.
C16_LoadingEndsOncePerAttempt ==
  [][LET settles == last'.op \in {"sensors", "readings"}
     IN  /\ settles =>
              /\ \E r \in requests : r.seq = last'.seq /\ r.kind = last'.op
              /\ \A r \in requests' : r.seq # last'.seq
              /\ issued' >= last'.seq
         /\ (settles /\ last'.applied) =>
              IF last'.op = "sensors" THEN ~comp'.sensorsLoading
                                      ELSE ~comp'.readingsLoading
         /\ (comp'.inst = comp.inst /\ comp.sensorsLoading /\ ~comp'.sensorsLoading)
              => (last'.op = "sensors" /\ last'.applied)
         /\ (comp'.inst = comp.inst /\ comp.readingsLoading /\ ~comp'.readingsLoading)
              => (last'.op = "readings" /\ last'.applied)]_vars

C16_Witness ==
  /\ last.op = "readings" /\ last.applied /\ last.ok /\ last.status = 403
  /\ comp.page = "sensors" /\ ~comp.readingsLoading
  /\ \A r \in requests : r.seq # last.seq

\* C17: no request is a retry. A sensors request is issued only by a view
\* mounting; a readings request only in a step of the mounted view that
\* changes selectedSensor or timeRange, or is a press of Refresh; and the step
\* in which a request fails issues nothing.
C17_NoAutomaticRetry ==
  [][LET new == requests' \ requests
     IN  /\ \A r \in new :
              IF r.kind = "sensors"
                THEN comp'.inst # comp.inst /\ r.inst = comp'.inst
                ELSE /\ comp'.inst = comp.inst /\ r.inst = comp.inst
                     /\ \/ comp'.selectedSensor # comp.selectedSensor
                        \/ comp'.timeRange # comp.timeRange
                        \/ last'.op = "refresh"
         /\ (last'.op \in {"sensors", "readings"} /\ ~(last'.ok /\ last'.status = 200))
              => new = {}]_vars

C17_Witness ==
  /\ last.op = "readings" /\ last.applied /\ last.ok /\ last.status = 500
  /\ requests = {} /\ TruthyError(comp.error)
  /\ issued < MaxRequests

\* C18: every step of a mounted view that changes selectedSensor to a sensor
\* id, or changes timeRange while a sensor is selected, issues a readings
\* request, which carries the sensor id and the time range of the view after
\* the step.
C18_RequestOnSelectionChange ==
  [][(/\ comp.page # "login" /\ comp'.inst = comp.inst
      /\ comp'.selectedSensor # NoSensor
      /\ \/ comp'.selectedSensor # comp.selectedSensor
         \/ comp'.timeRange # comp.timeRange)
       => \E r \in requests' \ requests :
            /\ r.kind = "readings"
            /\ r.sensor = comp'.selectedSensor
            /\ r.range = RangeOf(comp')]_vars

C20_SensorsStatusMapping ==
  [][(last'.op = "sensors" /\ last'.applied /\ last'.ok /\ last'.status \notin {200, 401})
       => /\ comp'.error =
               IF last'.status = 500
                 THEN TextError(IF last'.hasMsg THEN last'.msg ELSE ServerErrorMsg)
                 ELSE FormattedError(last'.status,
                                     IF last'.hasMsg THEN last'.msg ELSE UnknownErrorMsg)
          /\ comp'.sensors = comp.sensors
          /\ comp'.selectedSensor = comp.selectedSensor]_vars

C20_Witness ==
  /\ last.op = "sensors" /\ last.applied /\ last.ok /\ last.status = 500 /\ last.hasMsg
  /\ comp.error = TextError(last.msg) /\ last.msg # ServerErrorMsg
  /\ comp.sensors = <<>> /\ comp.selectedSensor = NoSensor

\* the message a loader was answered with, or the fallback when it had none
MsgOr(fallback) == IF last.hasMsg THEN last.msg ELSE fallback

\* C21: a readings loader that resumes with 403 or 409 sets the error to the
\* server's error_msg, or to "You do not have permission to access this
\* resource" / "Resource already exists" when there is none; with 500 and
\* with any other status it sets what the sensors loader sets; and a sensors
\* loader that resumes with 403 or 409 sets "Error: <status> - <message>".
C21_ReadingsStatusMapping ==
  /\ (last.op = "readings" /\ last.applied /\ last.ok /\ last.status \notin {200, 401})
       => comp.error =
            IF last.status = 403 THEN TextError(MsgOr(ForbiddenMsg))
            ELSE IF last.status = 409 THEN TextError(MsgOr(ConflictMsg))
            ELSE IF last.status = 500 THEN TextError(MsgOr(ServerErrorMsg))
            ELSE FormattedError(last.status, MsgOr(UnknownErrorMsg))
  /\ (last.op = "sensors" /\ last.applied /\ last.ok /\ last.status \in {403, 409})
       => comp.error = FormattedError(last.status, MsgOr(UnknownErrorMsg))

C21_Witness ==
  /\ last.op = "readings" /\ last.applied /\ last.ok /\ last.status = 403
  /\ ~last.hasMsg /\ comp.page = "sensors"
  /\ comp.error = TextError(ForbiddenMsg)

\* C22: over an empty reading collection the statistics are avgCO2 = 0,
\* avgTemp = 0, maxCO2 = 0, maxTemp = 0 and totalReadings = 0, none of them
\* NaN.
C22_StatsOfEmpty ==
  (comp.page = "plots" /\ Len(comp.readings) = 0)
    => stats(comp) = [avgCO2 |-> Fixed(0), maxCO2 |-> Fixed(0), avgTemp |-> Fixed(0),
                      maxTemp |-> Fixed(0), totalReadings |-> 0]

C22_Witness ==
  /\ comp.page = "plots" /\ last.op = "readings" /\ last.status = 200
  /\ Len(comp.readings) = 0 /\ ~comp.readingsLoading
  /\ ~stats(comp).avgCO2.nan /\ stats(comp).avgCO2.hundredths = 0

\* the text f is the quotient sum / n rounded to two decimal places: it is
\* within half a hundredth of it
RoundedFrom(f, sum, n) ==
  LET d == f.hundredths * 10 * n - sum
  IN  ~f.nan /\ 2 * d <= 10 * n /\ 2 * d >= -(10 * n)

\* C23: over a non-empty reading collection the statistics are the mean of
\* co2, the mean of temperature, the largest co2 and the largest temperature
\* of the collection, each to two decimal places, and totalReadings is the
\* size of the collection.
C23_StatsOfNonEmpty ==
  (comp.page = "plots" /\ Len(comp.readings) > 0)
    => LET n == Len(comp.readings)
           co2 == Co2Of(comp)
           temp == TemperatureOf(comp)
       IN  /\ stats(comp).totalReadings = n
           /\ RoundedFrom(stats(comp).avgCO2, SumOf(co2), n)
           /\ RoundedFrom(stats(comp).avgTemp, SumOf(temp), n)
           /\ \E x \in Range(co2) :
                (\A y \in Range(co2) : y <= x) /\ RoundedFrom(stats(comp).maxCO2, x, 1)
           /\ \E x \in Range(temp) :
                (\A y \in Range(temp) : y <= x) /\ RoundedFrom(stats(comp).maxTemp, x, 1)

\* the characters c occur in the text h, one after the other
Contains(h, c) == \E k \in 0..(Len(h) - Len(c)) : SubSeq(h, k + 1, k + Len(c)) = c

\* a signature with a character that is not white space
NonBlank(sig) == sig.present /\ \E i \in 1..Len(sig.chars) : sig.chars[i] # " "

\* C24: every row of the table shows "Verified", with a link whose URL
\* contains the reading's tx_signature, exactly when tx_signature is
\* non-empty, and "Pending" with no link exactly when it is empty or absent.
C24_VerifiedIffNonEmpty ==
  comp.page = "sensors" =>
    \A i \in 1..Len(TableRows(comp)) :
      LET sig == currentReadings(comp)[i].tx_signature
          row == TableRows(comp)[i]
          nonEmpty == sig.present /\ sig.chars # <<>>
      IN  /\ (row.badge = "Verified" /\ row.link /\ Contains(row.href, sig.chars)) <=> nonEmpty
          /\ (row.badge = "Pending" /\ ~row.link) <=> ~nonEmpty

\* C24, amended: every row of the table shows "Verified", with a link whose
\* URL contains the reading's tx_signature, exactly when tx_signature has a
\* character that is not white space, and "Pending" with no link exactly when
\* it is absent, empty or white space only.
C24_VerifiedIffNonBlank ==
  comp.page = "sensors" =>
    \A i \in 1..Len(TableRows(comp)) :
      LET sig == currentReadings(comp)[i].tx_signature
          row == TableRows(comp)[i]
      IN  /\ (row.badge = "Verified" /\ row.link /\ Contains(row.href, sig.chars))
                <=> NonBlank(sig)
          /\ (row.badge = "Pending" /\ ~row.link) <=> ~NonBlank(sig)

C24_Witness ==
  /\ comp.page = "sensors" /\ Len(TableRows(comp)) = 2
  /\ TableRows(comp)[1].badge = "Verified"
  /\ Contains(TableRows(comp)[1].href, <<"a", "b", "c", "1", "2", "3">>)
  /\ TableRows(comp)[2].badge = "Pending"
  /\ comp.readings[2].tx_signature = Signature(<<" ">>)

\* C25: with two pages or more and currentPage one of them, the pagination
\* control renders a button for exactly page 1, the last page, currentPage
\* and the neighbours of currentPage that are pages, and exactly one ellipsis
\* within every maximal run of pages without a button.
C25_PageNumbers ==
  LET tp == totalPages(comp)
      cp == comp.currentPage
      shown == {p \in 1..tp : PageNumbers(comp)[p] = "button"}
  IN  (comp.page = "sensors" /\ tp >= 2 /\ cp >= 1 /\ cp <= tp) =>
        /\ shown = {1, tp, cp - 1, cp, cp + 1} \cap (1..tp)
        /\ shown = PageButtons(comp)
        /\ \A a, b \in 1..tp :
             (/\ a <= b /\ (a - 1) \in shown /\ (b + 1) \in shown
              /\ \A q \in a..b : q \notin shown)
               => Cardinality({q \in a..b : PageNumbers(comp)[q] = "ellipsis"}) = 1

C25_Witness ==
  /\ totalPages(comp) = 8 /\ comp.currentPage = 4
  /\ PageNumbers(comp) =
       <<"button", "ellipsis", "button", "button", "button", "ellipsis", "null", "button">>

\* C26: every page number a page button passes to goToPage is a page of the
\* reading collection displayed when it is pressed, whatever currentPage was.
C26_ButtonsPassPagesInRange ==
  [][last'.op = "goToPage"
       => /\ last'.page >= 1 /\ last'.page <= totalPages(comp)
          /\ comp'.currentPage = last'.page
          /\ comp'.readings = comp.readings]_vars

C26_Witness ==
  /\ last.op = "goToPage" /\ requests = {}
  /\ totalPages(comp) = 2 /\ last.page = 2 /\ comp.currentPage = 2
  /\ \A i \in 1..Len(comp.readings) : comp.readings[i].req = 2

\* C27: chartData has one tuple per reading, tuple i made from reading i: its
\* co2 and temperature are those of reading i to two decimal places and its
\* label and full date are those of reading i's timestamp.
C27_ChartDataInOrder ==
  comp.page = "plots" =>
    /\ Len(chartData(comp)) = Len(comp.readings)
    /\ \A i \in 1..Len(comp.readings) :
         LET tuple == chartData(comp)[i]
             reading == comp.readings[i]
         IN  /\ RoundedFrom(tuple.co2, reading.co2, 1)
             /\ RoundedFrom(tuple.temperature, reading.temperature, 1)
             /\ tuple.timestamp.hour = reading.timestamp.hour
             /\ tuple.timestamp.minute = reading.timestamp.minute
             /\ tuple.fullDate = reading.timestamp

C27_Witness ==
  /\ comp.page = "plots" /\ Len(comp.readings) = 2
  /\ comp.readings[1].co2 = 412345 /\ chartData(comp)[1].co2 = Fixed(41235)
  /\ comp.readings[1].temperature = 21678 /\ chartData(comp)[1].temperature = Fixed(2168)
  /\ comp.readings[2].co2 = 400000 /\ chartData(comp)[2].co2 = Fixed(40000)
  /\ comp.readings[2].temperature = -5000 /\ chartData(comp)[2].temperature = Fixed(-500)

\* C28: after a readings loader has resumed with 200 the reading collection
\* is the body of that response, reading for reading in the server's order,
\* and holds no reading of another response.
C28_ReadingsReplacedWholesale ==
  (last.op = "readings" /\ last.applied /\ last.ok /\ last.status = 200)
    => /\ Len(comp.readings) = Len(last.body)
       /\ \A i \in 1..Len(last.body) : comp.readings[i] = last.body[i]
       /\ \A i \in 1..Len(comp.readings) : comp.readings[i].req = last.seq

C28_Witness ==
  /\ last.op = "readings" /\ last.applied /\ last.ok /\ last.status = 200
  /\ last.seq = 3 /\ comp.page = "plots"
  /\ Len(last.body) = ShortLen /\ Len(comp.readings) = ShortLen
  /\ comp.readings[1].req = 3

\* C29: every request a step issues, of the sensors loader and of the
\* readings loader, carries as its bearer token the token of the session
\* current in that step: a token, and the token of no earlier session.
C29_BearerOfCurrentSession ==
  [][\A r \in requests' \ requests :
       /\ r.kind \in {"sensors", "readings"}
       /\ r.token # NoToken
       /\ r.token = login(sessions').token
       /\ \A n \in 1..(sessions' - 1) : r.token # login(n).token
       /\ token' = r.token]_vars

C29_Witness ==
  /\ sessions = 2 /\ token = login(2).token
  /\ \E r \in requests : r.kind = "readings" /\ r.token = login(2).token
  /\ \E r \in requests : r.kind = "sensors" /\ r.token = login(1).token

\* C30: a view is on "No Sensors Found" after its sensors loader resumed only
\* if the loader resumed with 200 and an empty collection; after a sensors
\* loader has failed (an error status or a transport failure) the view
\* displays the error, not "No Sensors Found".
C30_NoSensorsOnlyAfterEmpty200 ==
  (last.op = "sensors" /\ last.applied)
    => /\ Display(comp) = "noSensors"
            => (last.ok /\ last.status = 200 /\ Len(last.body) = 0)
       /\ ~(last.ok /\ last.status = 200)
            => (Display(comp) # "noSensors" /\ ErrorShown(comp))

\* C31: the readings loading flag of a view is true whenever a readings
\* request of the view is still outstanding; with two requests overlapping,
\* the completion of the first leaves the flag up while the second is in
\* flight.
C31_LoadingWhileOutstanding ==
  (comp.page # "login" /\ Outstanding # {}) => comp.readingsLoading

\* C32: once every readings request of the view has completed, the error is
\* non-null exactly when the latest-issued readings request failed, whatever
\* the order the responses arrived in.
C32_ErrorIffLatestFailed ==
  (comp.page # "login" /\ Outstanding = {} /\ latest.arrived)
    => (comp.error # NullError <=> ~(latest.status = 200))

\* C33: with a non-empty sensor collection the readings panel shows exactly
\* one of its four displays: the loader, the error, the empty state or the
\* readings (table, or statistics and charts); never two, never none.
C33_ExactlyOneDisplay ==
  (comp.page # "login" /\ Len(comp.sensors) > 0)
    => Cardinality(PanelDisplays(comp)) = 1

C33_Witness ==
  /\ PanelDisplays(comp) = {"error"}
  /\ ~comp.readingsLoading
  /\ Outstanding # {}

\* C34: the logout a 401 schedules ends only the session whose token got the
\* 401: a timer that fires after the user has logged out and in again leaves
\* the new session logged in.
C34_TimerEndsOwnSession ==
  [][(last'.op = "timer" /\ isAuthenticated /\ ~isAuthenticated')
       => \E t \in timers \ timers' : t.req = last'.seq /\ t.token = token]_vars

\* C35: a readings loader that resumes with a status other than 200, or with
\* a transport failure, leaves the readings, the sensors, the selected
\* sensor, the time range and currentPage as they are: of the view's state it
\* changes the error and the loading flag only, it issues no request, and it
\* schedules a logout only for 401.
C35_FailureFrame ==
  [][(last'.op = "readings" /\ ~(last'.ok /\ last'.status = 200))
       => /\ comp' = [comp EXCEPT !.error = comp'.error,
                                  !.readingsLoading = comp'.readingsLoading]
          /\ requests' \subseteq requests
          /\ issued' = issued
          /\ (timers' # timers => (last'.ok /\ last'.status = 401))]_vars

C35_Witness ==
  /\ last.op = "readings" /\ last.applied /\ ~last.ok
  /\ comp.page = "sensors" /\ comp.currentPage = 2
  /\ Len(comp.readings) = LongLen
  /\ comp.error # NullError /\ ~comp.readingsLoading

\* C36: while no sensor is selected, from the mount of a view on and also
\* after its sensors fetch has failed or returned no sensor, the view has
\* issued no readings request.
C36_NoReadingsRequestUnselected ==
  (comp.page # "login" /\ comp.selectedSensor = NoSensor)
    => /\ latest.req = 0
       /\ \A r \in requests : Mounted(r) => r.kind = "sensors"

C36_Witness ==
  /\ last.op = "sensors" /\ last.applied /\ last.ok /\ last.status = 500
  /\ comp.page = "sensors" /\ comp.selectedSensor = NoSensor
  /\ ~comp.sensorsLoading /\ latest.req = 0

\* C37: a step of a display control, the Show CO2 / Show Temperature toggles
\* of the plots view or the page navigation of the table view, issues no
\* request and leaves the readings, the sensors, the selected sensor, the
\* time range, the error and the loading flag as they are.
C37_DisplayControlsFrame ==
  [][(last'.op \in {"toggleCO2", "toggleTemp", "goToNextPage", "goToPrevPage", "goToPage"})
       => /\ requests' = requests
          /\ issued' = issued
          /\ comp'.readings = comp.readings
          /\ comp'.sensors = comp.sensors
          /\ comp'.selectedSensor = comp.selectedSensor
          /\ comp'.timeRange = comp.timeRange
          /\ comp'.error = comp.error
          /\ comp'.readingsLoading = comp.readingsLoading]_vars

C37_Witness ==
  /\ last.op = "toggleCO2" /\ ~comp.showCO2
  /\ Outstanding # {} /\ comp.readingsLoading
  /\ Len(comp.readings) > 0

====
